---- MODULE Spec2Model ----
(***************************************************************************)
(* Sellafield: a core_pattern helper.  One process run parses its          *)
(* arguments, drops privileges, looks the user up, evaluates a policy      *)
(* script and copies standard input to the file the script chose.          *)
(*                                                                         *)
(* The model follows src/src/main.rs statement by statement.  The state    *)
(* holds the process (program counter, uid, umask, configuration, the      *)
(* BufWriter) and the part of the filesystem the program can reach.        *)
(* Consecutive runs share the filesystem and nothing else.                 *)
(*                                                                         *)
(* Numbers wider than TLC's integers (i64, u64, u32) are kept as           *)
(* big-endian sequences of 16-bit limbs, so that casts and range checks    *)
(* are computed at their real width.                                       *)
(***************************************************************************)
EXTENDS Integers, Sequences, FiniteSets, TLC

VARIABLES
    run,        \* number of the current process run (1, 2, ...)
    pc,         \* position of the process in main/run/run_script/write_output
    opts,       \* the parsed Opts (uid, core_limit), NoOpts before parsing
    euid,       \* user id of the process
    umask,      \* file-creation mask of the process (9 bits)
    stdin,      \* bytes the dispatcher offers on standard input (known once read)
    taken,      \* number of bytes read from standard input so far
    config,     \* the Config accumulator: output_path, permissions (u64)
    calls,      \* the setter calls the script has made: their number, the
                \* paths passed so far, the last argument of each setter
    mode16,     \* permissions_mode: u16 of write_output (NoMode before)
    buf,        \* bytes held by the BufWriter, not yet written to the file
    full_exe,   \* run(): the executable path, decoded (<<>> before)
    exe,        \* run(): the executable name (<<>> before)
    passwd,     \* get_user_details(): the entry getpwuid returned (bytes)
    user_details, \* run(): the UserDetails of the lookup (NoDetails before)
    home,       \* run_script(): the text home() gives the script
    username,   \* run_script(): the text username() gives the script
    result,     \* outcome of run(): NoResult, OkResult or an error record
    exit,       \* process exit status: "running", "success", "failure"
    dirs,       \* filesystem: directory path -> NoEnt or [owner, mode]
    files,      \* filesystem: file path -> NoEnt or [owner, mode, content]
    logFile,    \* log file created by this run: NoEnt or [owner, mode, content]
    events,     \* what this run has done so far, in order
    start,      \* the directories and files as this run found them
    envFault,   \* TRUE once the environment failed a call for an outside reason
    prev        \* summary of the previous run (NoPrev in the first run)

vars == <<run, pc, opts, euid, umask, stdin, taken, config, calls, mode16, buf,
          full_exe, exe, passwd, user_details, home, username,
          result, exit, dirs, files, logFile, events, start, envFault, prev>>

-----------------------------------------------------------------------------
(* Bounds of the model.                                                    *)

MaxRuns == 2        \* process runs in one behaviour
MaxCalls == 2       \* setter calls one script makes
MaxInput == 3       \* bytes offered on standard input
MaxCoreLimit == 3   \* largest core_limit
MaxExeLen == 4      \* characters of an --exe argument
MaxNameLen == 1     \* bytes of a user name in the identity database
MaxDirLen == 3      \* bytes of a home directory in the identity database
BufCap == 2         \* capacity of the BufWriter (8192 in std, scaled down)

-----------------------------------------------------------------------------
(* Fixed-width integers as limbs.                                          *)

LimbBase == 2^16
Zero64 == <<0, 0, 0, 0>>       \* 4 limbs of 16 bits: 64 bits
Limbs == Len(Zero64)

\* 64-bit value of a small natural number.
U64(n) == <<0, 0, n \div LimbBase, n % LimbBase>>

\* A script integer (rhai INT, i64), written as sign and magnitude.
I64(neg, mag) == [neg |-> neg, mag |-> mag]

\* Two's complement negation of a 64-bit limb sequence (mod 2^64).
RECURSIVE AddOne(_, _)
AddOne(l, i) ==
    IF i = 0 THEN l
    ELSE IF l[i] = LimbBase - 1 THEN AddOne([l EXCEPT ![i] = 0], i - 1)
    ELSE [l EXCEPT ![i] = l[i] + 1]

Negate64(l) == AddOne([i \in 1..Limbs |-> (LimbBase - 1) - l[i]], Limbs)

RECURSIVE BitAnd(_, _)
BitAnd(a, b) ==
    IF a = 0 \/ b = 0 THEN 0
    ELSE (a % 2) * (b % 2) + 2 * BitAnd(a \div 2, b \div 2)

\* The bits of a that are not in b (a AND NOT b), for b below 2^k.
BitClear(a, b) == a - BitAnd(a, b)

-----------------------------------------------------------------------------
(* Values of the program and its inputs.                                   *)

NoOpts == [valid |-> FALSE]
NoEnt == [exists |-> FALSE]
NoPasswd == [pw_name |-> <<>>, pw_dir |-> <<>>]
NoDetails == [username |-> <<>>, home |-> <<>>]
NoMode == [ok |-> FALSE]
NoResult == [kind |-> "none", value |-> "none"]
OkResult == [kind |-> "ok", value |-> "none"]
NoPrev == [exit |-> "none"]

Root == 0                       \* uid of the superuser, which the dispatcher runs the helper as
KnownUids == {0, 1000}          \* uids with an entry in the identity database
Uids == KnownUids \cup {4242}   \* 4242 has no entry

\* Paths are sequences of components below "/"; <<>> is the empty string as
\* an output path and the root directory as a directory.  PathA lies two
\* missing directories below /tmp; PathB names /tmp itself, a directory.
EmptyPath == <<>>
PathA == <<"tmp", "x", "y", "out">>
PathB == <<"tmp">>
OutputPaths == {EmptyPath, PathA, PathB}
FilePaths == OutputPaths \ {EmptyPath}

\* Path::parent: the path without its last component.
Parent(p) == SubSeq(p, 1, Len(p) - 1)

RECURSIVE Ancestors(_)
Ancestors(p) == IF Len(p) = 0 THEN {} ELSE {Parent(p)} \cup Ancestors(Parent(p))

DirPaths == UNION {Ancestors(p) : p \in FilePaths}

\* Arguments a script passes to set_permissions (i64).
PermArgs ==
    { I64(FALSE, U64(384)),               \* 0o600
      I64(FALSE, U64(4534)),              \* 0o10666: fits u16, above 0o7777
      I64(FALSE, <<0, 0, 1, 0>>),         \* 65536: one more than u16 holds
      I64(TRUE, U64(1)) }                 \* -1

\* A text is the sequence of its characters or bytes: every text of up to
\* n of the given ones.
RECURSIVE Texts(_, _)
Texts(chars, n) ==
    IF n = 0 THEN {<<>>}
    ELSE LET shorter == Texts(chars, n - 1)
         IN  shorter \cup {Append(t, c) : t \in shorter, c \in chars}

InheritedUmasks == {0, 63}      \* 0o000 and 0o077

\* The bytes offered to run r on standard input: n distinct bytes.
Input(r, n) == [i \in 1..n |-> 16 * r + i]

Min(a, b) == IF a < b THEN a ELSE b

-----------------------------------------------------------------------------
(* Conversions of the program.                                             *)

\* `x as u64` for x: i64 (set_permissions): the same 64 bits, read unsigned.
AsU64(x) == IF x.neg THEN Negate64(x.mag) ELSE x.mag

\* Variant: `u as u16`, which keeps the low 16 bits of any value.
TryIntoU16_wrapping(u) == [ok |-> TRUE, v |-> u[Limbs]]

\* u64 -> u16 by try_into: succeeds only when the value is below 2^16.
TryIntoU16(u) ==
    IF \A i \in 1..(Limbs - 1) : u[i] = 0
    THEN [ok |-> TRUE, v |-> u[Limbs]]
    ELSE [ok |-> FALSE]

\* `!(m as libc::mode_t)` for m: u16: the complement at 32 bits, two limbs.
NotMode(m) == <<(LimbBase - 1) - (m \div LimbBase), (LimbBase - 1) - (m % LimbBase)>>

\* make_permissions(m as u32): the mode handed to chmod, two limbs.
make_permissions(m) == <<m \div LimbBase, m % LimbBase>>

-----------------------------------------------------------------------------
(* Texts of the identity database.  A byte and a char are numbers; a       *)
(* String is the sequence of the UTF-8 bytes of its chars, a PathBuf any   *)
(* sequence of bytes.                                                      *)

ReplacementChar == 65533        \* U+FFFD, what a lossy decoding substitutes

\* The UTF-8 bytes of one char.
Utf8Encode(c) ==
    IF c < 2^7 THEN <<c>>
    ELSE IF c < 2^11 THEN <<192 + (c \div 64), 128 + (c % 64)>>
    ELSE IF c < 2^16
    THEN <<224 + (c \div 4096), 128 + ((c \div 64) % 64), 128 + (c % 64)>>
    ELSE <<240 + (c \div 262144), 128 + ((c \div 4096) % 64),
           128 + ((c \div 64) % 64), 128 + (c % 64)>>

\* The String of a sequence of chars.
RECURSIVE Utf8(_)
Utf8(chars) ==
    IF chars = <<>> THEN <<>>
    ELSE Utf8Encode(Head(chars)) \o Utf8(Tail(chars))

\* The first char of a byte sequence read as UTF-8 and the bytes it takes;
\* an ill-formed or cut-off sequence gives the replacement char for its
\* longest well-formed start (at least one byte).
Utf8Chunk(s) ==
    LET b == s[1]
        IsAt(i, lo, hi) == i <= Len(s) /\ lo <= s[i] /\ s[i] <= hi
        Bad(n) == [char |-> ReplacementChar, len |-> n]
    IN  IF b < 128 THEN [char |-> b, len |-> 1]
        ELSE IF 194 <= b /\ b <= 223
        THEN IF IsAt(2, 128, 191)
             THEN [char |-> ((b - 192) * 64) + (s[2] - 128), len |-> 2]
             ELSE Bad(1)
        ELSE IF 224 <= b /\ b <= 239
        THEN IF ~IsAt(2, IF b = 224 THEN 160 ELSE 128,
                         IF b = 237 THEN 159 ELSE 191) THEN Bad(1)
             ELSE IF ~IsAt(3, 128, 191) THEN Bad(2)
             ELSE [char |-> ((b - 224) * 4096) + ((s[2] - 128) * 64)
                              + (s[3] - 128),
                   len |-> 3]
        ELSE IF 240 <= b /\ b <= 244
        THEN IF ~IsAt(2, IF b = 240 THEN 144 ELSE 128,
                         IF b = 244 THEN 143 ELSE 191) THEN Bad(1)
             ELSE IF ~IsAt(3, 128, 191) THEN Bad(2)
             ELSE IF ~IsAt(4, 128, 191) THEN Bad(3)
             ELSE [char |-> ((b - 240) * 262144) + ((s[2] - 128) * 4096)
                              + ((s[3] - 128) * 64) + (s[4] - 128),
                   len |-> 4]
        ELSE Bad(1)

\* The chars of a byte sequence read as UTF-8; for a String, its chars.
RECURSIVE Utf8Chars(_)
Utf8Chars(s) ==
    IF s = <<>> THEN <<>>
    ELSE LET c == Utf8Chunk(s)
         IN  <<c.char>> \o Utf8Chars(SubSeq(s, c.len + 1, Len(s)))

\* lines 276-278: every byte c becomes the char `c as char`; collect()
\* builds the String of these chars.
latin1_to_string(s) == Utf8([i \in 1..Len(s) |-> s[i]])

\* lines 280-283: OsStr::from_bytes keeps the bytes as they are.
latin1_to_path(s) == s

\* line 145: Path::to_string_lossy().to_string(): the bytes read as UTF-8,
\* ill-formed parts replaced by U+FFFD.
to_string_lossy(path) == Utf8(Utf8Chars(path))

\* Bytes of a name or directory: 'A', and bytes above 0x7F that are a
\* continuation byte (0xA9), a two-byte lead (0xC3), a three-byte lead (0xE9).
PwBytes == {65, 169, 195, 233}

\* Every entry getpwuid can return, within the bounds.
PwEntries ==
    [pw_name : Texts(PwBytes, MaxNameLen), pw_dir : Texts(PwBytes, MaxDirLen)]

\* The entry of the known users: name "A", directory "/A".
KnownEntry == [pw_name |-> <<65>>, pw_dir |-> <<47, 65>>]

-----------------------------------------------------------------------------
(* The operating system, as the program's calls see it.                    *)

PermBits == 2^12                \* S_IALLUGO + 1: chmod keeps mode & 0o7777
MaskBits == 2^9                 \* umask keeps mask & 0o777
OwnerWrite == 2^7               \* S_IWUSR, 0o200
OtherWrite == 2^1               \* S_IWOTH, 0o002
FileCreateMode == 438           \* 0o666, the mode OpenOptions creates with
DirCreateMode == 511            \* 0o777, the mode create_dir_all creates with

\* umask(2): the new mask is the low nine bits of the argument.
set_umask(mask) == mask[2] % MaskBits

\* Write access of uid to a file or directory (groups never match).
MayWrite(uid, ent) ==
    \/ uid = Root
    \/ ent.owner = uid /\ BitAnd(ent.mode, OwnerWrite) # 0
    \/ ent.owner # uid /\ BitAnd(ent.mode, OtherWrite) # 0

\* fs::create_dir_all(p): creates every missing directory from the top down.
RECURSIVE create_dir_all(_, _, _, _)
create_dir_all(d, p, uid, mask) ==
    IF d[p].exists THEN [ok |-> TRUE, dirs |-> d]
    ELSE LET up == create_dir_all(d, Parent(p), uid, mask)
         IN  IF up.ok /\ MayWrite(uid, up.dirs[Parent(p)])
             THEN [ok |-> TRUE,
                   dirs |-> [up.dirs EXCEPT ![p] =
                                [exists |-> TRUE, owner |-> uid,
                                 mode |-> BitClear(DirCreateMode, mask)]]]
             ELSE [ok |-> FALSE, dirs |-> up.dirs]

\* OpenOptions::new().create(true).truncate(true).write(true).open(p);
\* a directory cannot be opened for writing (EISDIR).
OpenCreateTruncate(f, d, p, uid, mask) ==
    IF p \in DOMAIN d /\ d[p].exists THEN [ok |-> FALSE, files |-> f]
    ELSE IF f[p].exists
    THEN IF MayWrite(uid, f[p])
         THEN [ok |-> TRUE, files |-> [f EXCEPT ![p].content = <<>>]]
         ELSE [ok |-> FALSE, files |-> f]
    ELSE IF d[Parent(p)].exists /\ MayWrite(uid, d[Parent(p)])
         THEN [ok |-> TRUE,
               files |-> [f EXCEPT ![p] =
                            [exists |-> TRUE, owner |-> uid,
                             mode |-> BitClear(FileCreateMode, mask),
                             content |-> <<>>]]]
         ELSE [ok |-> FALSE, files |-> f]

\* fs::set_permissions(p, mode): chmod(2), allowed to the owner and to root.
Chmod(f, p, uid, mode) ==
    IF f[p].exists /\ (uid = Root \/ f[p].owner = uid)
    THEN [ok |-> TRUE, files |-> [f EXCEPT ![p].mode = mode[2] % PermBits]]
    ELSE [ok |-> FALSE, files |-> f]

\* write(2) of bytes b at the end of the open file p.
WriteBytes(f, p, b) == [f EXCEPT ![p].content = f[p].content \o b]

Err(kind, value) == [kind |-> kind, value |-> value]

-----------------------------------------------------------------------------
(* A fresh process: the state every run starts in.                         *)

BaselineUmask == 18             \* 0o022
DefaultPermissions == 256       \* 0o400

DefaultConfig == [output_path |-> EmptyPath, permissions |-> Zero64]

NoArg == [called |-> FALSE]
NoCalls == [n |-> 0, paths |-> {}, set_output_path |-> NoArg,
            set_permissions |-> NoArg]

InitialDirs ==
    [p \in DirPaths |->
        IF p = <<>> THEN [exists |-> TRUE, owner |-> Root, mode |-> 493]  \* 0o755
        ELSE IF p = <<"tmp">> THEN [exists |-> TRUE, owner |-> Root, mode |-> 1023]
        ELSE NoEnt]

Fresh(r) ==
    /\ run' = r
    /\ pc' = "main"
    /\ opts' = NoOpts
    /\ euid' = Root
    /\ umask' \in InheritedUmasks
    /\ stdin' = <<>>
    /\ taken' = 0
    /\ config' = DefaultConfig
    /\ calls' = NoCalls
    /\ mode16' = NoMode
    /\ buf' = <<>>
    /\ full_exe' = <<>>
    /\ exe' = <<>>
    /\ passwd' = NoPasswd
    /\ user_details' = NoDetails
    /\ home' = <<>>
    /\ username' = <<>>
    /\ result' = NoResult
    /\ exit' = "running"
    /\ logFile' = NoEnt
    /\ events' = <<>>
    /\ envFault' = FALSE

Init ==
    /\ run = 1
    /\ pc = "main"
    /\ opts = NoOpts
    /\ euid = Root
    /\ umask \in InheritedUmasks
    /\ stdin = <<>>
    /\ taken = 0
    /\ config = DefaultConfig
    /\ calls = NoCalls
    /\ mode16 = NoMode
    /\ buf = <<>>
    /\ full_exe = <<>>
    /\ exe = <<>>
    /\ passwd = NoPasswd
    /\ user_details = NoDetails
    /\ home = <<>>
    /\ username = <<>>
    /\ result = NoResult
    /\ exit = "running"
    /\ dirs = InitialDirs
    /\ files = [p \in FilePaths |-> NoEnt]
    /\ logFile = NoEnt
    /\ events = <<>>
    /\ start = [dirs |-> dirs, files |-> files]
    /\ envFault = FALSE
    /\ prev = NoPrev

Locals == <<full_exe, exe, passwd, user_details, home, username>>
Process == <<opts, euid, umask, stdin, taken, config, calls, mode16, buf,
             Locals>>
Disk == <<dirs, files, logFile>>

\* run() returns r to main.
Return(r) == result' = r /\ pc' = "return"

Did(e) == events' = Append(events, e)

-----------------------------------------------------------------------------
(* run(): arguments, the core-limit check, the privilege drop, the lookup. *)

\* lines 52-76: every option of Opts is required; the ones left out of an
\* invocation are named in the usage error, in declaration order.
MissingOptions == {<<"--uid">>, <<"--uid", "--config">>}

\* The characters of an executable path that matter: the two separators
\* and a letter.
ExeChars == {"!", "/", "c"}

\* Every --exe argument of up to MaxExeLen characters.
EncodedExes == Texts(ExeChars, MaxExeLen)

\* The --exe argument the dispatcher passes for /c/c.
KernelExe == <<"!", "c", "!", "c">>

\* line 102: try_from_env parses the arguments, with --exe drawn from exes,
\* or fails with the usage text.
ParseArgsFrom(exes) ==
    /\ pc = "main"
    /\ \/ \E u \in Uids, c \in 0..MaxCoreLimit, e \in exes :
            /\ opts' = [valid |-> TRUE, uid |-> u, core_limit |-> c,
                        exe |-> e]
            /\ pc' = "check_limit"
            /\ UNCHANGED result
       \/ \E m \in MissingOptions :
            /\ Return(Err("usage", m))
            /\ UNCHANGED opts
    /\ UNCHANGED Locals
    /\ UNCHANGED <<run, euid, umask, stdin, taken, config, calls, mode16, buf,
                   exit, Disk, events, envFault, prev, start>>

ParseArgs == ParseArgsFrom({KernelExe})

\* Variant: the check written `core_limit < 1`, which lets the value 1 pass.
CheckCoreLimit_off_by_one ==
    /\ pc = "check_limit"
    /\ IF opts.core_limit < 1
       THEN Return(OkResult)
       ELSE pc' = "set_uid" /\ UNCHANGED result
    /\ UNCHANGED <<run, Process, exit, Disk, events, envFault, prev, start>>

\* lines 107-109: core_limit 0 and 1 end the run at once, successfully.
CheckCoreLimit ==
    /\ pc = "check_limit"
    /\ IF opts.core_limit <= 1
       THEN Return(OkResult)
       ELSE pc' = "set_uid" /\ UNCHANGED result
    /\ UNCHANGED <<run, Process, exit, Disk, events, envFault, prev, start>>

\* Variant: the return code of setuid is not looked at.
SetUid_unchecked ==
    /\ pc = "set_uid"
    /\ \/ /\ euid' = opts.uid
          /\ Did("setuid")
          /\ UNCHANGED envFault
       \/ /\ Did("setuid_failed")
          /\ envFault' = TRUE
          /\ UNCHANGED euid
    /\ pc' = "wrangle"
    /\ UNCHANGED Locals
    /\ UNCHANGED <<run, opts, umask, stdin, taken, config, calls, mode16, buf,
                   result, exit, Disk, prev, start>>

\* lines 113, 257-266: setuid(uid); a non-zero return code is an error.
SetUid ==
    /\ pc = "set_uid"
    /\ \/ /\ euid' = opts.uid
          /\ pc' = "wrangle"
          /\ Did("setuid")
          /\ UNCHANGED <<result, envFault>>
       \/ /\ Return(Err("set_uid", opts.uid))
          /\ Did("setuid_failed")
          /\ envFault' = TRUE
          /\ UNCHANGED euid
    /\ UNCHANGED Locals
    /\ UNCHANGED <<run, opts, umask, stdin, taken, config, calls, mode16, buf,
                   exit, Disk, prev, start>>

\* str::replace(from, to) for one-character from and to.
replace(s, from, to) == [i \in 1..Len(s) |-> IF s[i] = from THEN to ELSE s[i]]

\* str::rsplit_once(c): the text before and after the last c, if there is one.
rsplit_once(s, c) ==
    LET at == {i \in 1..Len(s) : s[i] = c}
    IN  IF at = {} THEN [some |-> FALSE]
        ELSE LET last == CHOOSE i \in at : \A j \in at : j <= i
             IN  [some |-> TRUE,
                  before |-> SubSeq(s, 1, last - 1),
                  after |-> SubSeq(s, last + 1, Len(s))]

\* lines 118-122: the text after the last '/', or the default (empty) text.
ExeOf(full) ==
    LET split == rsplit_once(full, "/")
    IN  IF split.some THEN split.after ELSE <<>>

\* lines 117-122: full_exe and exe are computed from the --exe argument.
WrangleExe ==
    /\ pc = "wrangle"
    /\ full_exe' = replace(opts.exe, "!", "/")
    /\ exe' = ExeOf(replace(opts.exe, "!", "/"))
    /\ pc' = "get_user"
    /\ UNCHANGED <<run, opts, euid, umask, stdin, taken, config, calls, mode16,
                   buf, passwd, user_details, home, username, result, exit,
                   Disk, events, envFault, prev, start>>

\* Variant: a null entry is not detected and the run goes on.
GetUserDetails_unchecked ==
    /\ pc = "get_user"
    /\ Did("getpwuid")
    /\ pc' = "run_script"
    /\ UNCHANGED <<run, Process, result, exit, Disk, envFault, prev, start>>

\* lines 125, 237-254: getpwuid(uid); a null entry is an error; the name
\* and the directory of an entry, drawn from entries, are converted.
GetUserDetailsFrom(entries) ==
    /\ pc = "get_user"
    /\ Did("getpwuid")
    /\ IF opts.uid \in KnownUids
       THEN \E e \in entries :
              /\ passwd' = e
              /\ user_details' = [username |-> latin1_to_string(e.pw_name),
                                  home |-> latin1_to_path(e.pw_dir)]
              /\ pc' = "run_script"
              /\ UNCHANGED result
       ELSE /\ Return(Err("identity", opts.uid))
            /\ UNCHANGED <<passwd, user_details>>
    /\ UNCHANGED <<run, opts, euid, umask, stdin, taken, config, calls, mode16,
                   buf, full_exe, exe, home, username, exit, Disk, envFault,
                   prev, start>>

GetUserDetails == GetUserDetailsFrom({KnownEntry})

-----------------------------------------------------------------------------
(* run_script(): the accumulator, the two setters, the evaluation.         *)

\* lines 140-176: the engine is set up with the texts of the accessors, the
\* accumulator gets its default permissions and the evaluation starts.
RunScriptBegin ==
    /\ pc = "run_script"
    /\ config' = [DefaultConfig EXCEPT !.permissions = U64(DefaultPermissions)]
    /\ calls' = NoCalls
    /\ pc' = "eval"
    /\ Did("eval")
    /\ home' = to_string_lossy(user_details.home)
    /\ username' = user_details.username
    /\ UNCHANGED <<full_exe, exe, passwd, user_details>>
    /\ UNCHANGED <<run, opts, euid, umask, stdin, taken, mode16, buf, result,
                   exit, Disk, envFault, prev, start>>

\* Variant: set_output_path stores a new Config that holds only the path.
ScriptSetOutputPath_clobbers(x) ==
    /\ pc = "eval"
    /\ calls.n < MaxCalls
    /\ config' = [output_path |-> x, permissions |-> U64(DefaultPermissions)]
    /\ calls' = [calls EXCEPT !.n = @ + 1, !.paths = @ \cup {x},
                              !.set_output_path = [called |-> TRUE, arg |-> x]]
    /\ UNCHANGED Locals
    /\ UNCHANGED <<run, pc, opts, euid, umask, stdin, taken, mode16, buf, result,
                   exit, Disk, events, envFault, prev, start>>

\* line 168: set_output_path(x) stores x.
ScriptSetOutputPath(x) ==
    /\ pc = "eval"
    /\ calls.n < MaxCalls
    /\ config' = [config EXCEPT !.output_path = x]
    /\ calls' = [calls EXCEPT !.n = @ + 1, !.paths = @ \cup {x},
                              !.set_output_path = [called |-> TRUE, arg |-> x]]
    /\ UNCHANGED Locals
    /\ UNCHANGED <<run, pc, opts, euid, umask, stdin, taken, mode16, buf, result,
                   exit, Disk, events, envFault, prev, start>>

\* line 170: set_permissions(x: i64) stores x as u64.
ScriptSetPermissions(x) ==
    /\ pc = "eval"
    /\ calls.n < MaxCalls
    /\ config' = [config EXCEPT !.permissions = AsU64(x)]
    /\ calls' = [calls EXCEPT !.n = @ + 1,
                              !.set_permissions = [called |-> TRUE, arg |-> x]]
    /\ UNCHANGED Locals
    /\ UNCHANGED <<run, pc, opts, euid, umask, stdin, taken, mode16, buf, result,
                   exit, Disk, events, envFault, prev, start>>

\* lines 175-177: the script file does not parse: nothing of it has run.
ScriptParseError ==
    /\ pc = "eval"
    /\ calls.n = 0
    /\ Return(Err("script", "parse"))
    /\ Did("raise")
    /\ UNCHANGED <<run, Process, exit, Disk, envFault, prev, start>>

\* Variant: the error of the evaluation is dropped and the accumulator used.
ScriptRaise_swallowed ==
    /\ pc = "eval"
    /\ Did("raise")
    /\ pc' = "decide"
    /\ UNCHANGED <<run, Process, result, exit, Disk, envFault, prev, start>>

\* lines 175-177: the script raises, after any number of setter calls.
ScriptRaise ==
    /\ pc = "eval"
    /\ Return(Err("script", "runtime"))
    /\ Did("raise")
    /\ UNCHANGED <<run, Process, exit, Disk, envFault, prev, start>>

\* lines 180-181: the script completes; the accumulator is cloned.
RunScriptReturn ==
    /\ pc = "eval"
    /\ pc' = "decide"
    /\ UNCHANGED <<run, Process, result, exit, Disk, events, envFault, prev, start>>

\* Variant: write_output is called whatever the output path is.
Decide_always_writes ==
    /\ pc = "decide"
    /\ pc' = "w_umask"
    /\ UNCHANGED <<run, Process, result, exit, Disk, events, envFault, prev, start>>

\* lines 130-135: an empty output path ends the run successfully.
Decide ==
    /\ pc = "decide"
    /\ IF config.output_path = EmptyPath
       THEN Return(OkResult)
       ELSE pc' = "w_umask" /\ UNCHANGED result
    /\ UNCHANGED <<run, Process, exit, Disk, events, envFault, prev, start>>

-----------------------------------------------------------------------------
(* write_output(): masks, directories, the file, its mode, the copy.       *)

Path == config.output_path

\* Variant: write_output leaves the inherited mask in place.
WriteSetBaseUmask_skipped ==
    /\ pc = "w_umask"
    /\ pc' = "w_mkdir"
    /\ UNCHANGED <<run, Process, result, exit, Disk, events, envFault, prev,
                   start>>

\* line 186: set_umask(0o022).
WriteSetBaseUmask ==
    /\ pc = "w_umask"
    /\ umask' = set_umask(<<0, BaselineUmask>>)
    /\ pc' = "w_mkdir"
    /\ UNCHANGED Locals
    /\ UNCHANGED <<run, opts, euid, stdin, taken, config, calls, mode16, buf,
                   result, exit, Disk, events, envFault, prev, start>>

\* lines 188-192: create_dir_all(parent); its error is returned as it is.
WriteCreateDirs ==
    /\ pc = "w_mkdir"
    /\ \/ LET r == create_dir_all(dirs, Parent(Path), euid, umask)
          IN  /\ dirs' = r.dirs
              /\ IF r.dirs # dirs THEN Did("mkdir") ELSE UNCHANGED events
              /\ IF r.ok
                 THEN pc' = "w_validate" /\ UNCHANGED result
                 ELSE Return(Err("write", "create_dir_all"))
              /\ UNCHANGED envFault
       \/ /\ ~dirs[Parent(Path)].exists
          /\ Return(Err("write", "create_dir_all"))
          /\ envFault' = TRUE
          /\ UNCHANGED <<dirs, events>>
    /\ UNCHANGED <<run, Process, exit, files, logFile, prev, start>>

\* lines 194-200: the permissions must fit u16; the error cites them.
WriteValidateMode ==
    /\ pc = "w_validate"
    /\ LET m == TryIntoU16(config.permissions)
       IN  IF m.ok
           THEN mode16' = m /\ pc' = "w_umask2" /\ UNCHANGED result
           ELSE Return(Err("invalid_permissions", config.permissions))
                /\ UNCHANGED mode16
    /\ UNCHANGED Locals
    /\ UNCHANGED <<run, opts, euid, umask, stdin, taken, config, calls, buf,
                   exit, Disk, events, envFault, prev, start>>

\* Variant: the mask stays 0o022 for the creation of the output file.
WriteSetModeUmask_skipped ==
    /\ pc = "w_umask2"
    /\ pc' = "w_open"
    /\ UNCHANGED <<run, Process, result, exit, Disk, events, envFault, prev,
                   start>>

\* line 203: set_umask(!(permissions_mode as libc::mode_t)).
WriteSetModeUmask ==
    /\ pc = "w_umask2"
    /\ umask' = set_umask(NotMode(mode16.v))
    /\ pc' = "w_open"
    /\ UNCHANGED Locals
    /\ UNCHANGED <<run, opts, euid, stdin, taken, config, calls, mode16, buf,
                   result, exit, Disk, events, envFault, prev, start>>

\* lines 208-213: the file is created or truncated; then the BufWriter.
WriteOpen ==
    /\ pc = "w_open"
    /\ \/ LET r == OpenCreateTruncate(files, dirs, Path, euid, umask)
          IN  /\ files' = r.files
              /\ IF r.ok
                 THEN pc' = "w_chmod" /\ Did("open") /\ UNCHANGED result
                 ELSE Return(Err("write", "open")) /\ UNCHANGED events
              /\ UNCHANGED envFault
       \/ /\ ~files[Path].exists
          /\ Return(Err("write", "open"))
          /\ envFault' = TRUE
          /\ UNCHANGED <<files, events>>
    /\ buf' = <<>>
    /\ UNCHANGED Locals
    /\ UNCHANGED <<run, opts, euid, umask, stdin, taken, config, calls, mode16,
                   exit, dirs, logFile, prev, start>>

\* lines 217-219: set_permissions(path, mode); on an error the function
\* returns and the BufWriter is dropped.
WriteChmod ==
    /\ pc = "w_chmod"
    /\ LET r == Chmod(files, Path, euid, make_permissions(mode16.v))
       IN  /\ files' = r.files
           /\ IF r.ok
              THEN pc' = "w_stdin" /\ Did("chmod") /\ UNCHANGED result
              ELSE /\ result' = Err("write", "error setting core dump permissions")
                   /\ pc' = "w_drop"
                   /\ UNCHANGED events
    /\ UNCHANGED <<run, Process, exit, dirs, logFile, envFault, prev, start>>

\* lines 222-223: standard input is locked; the dispatcher offers its bytes.
WriteLockStdin ==
    /\ pc = "w_stdin"
    /\ stdin' \in {Input(run, n) : n \in 0..MaxInput}
    /\ pc' = "w_copy"
    /\ UNCHANGED Locals
    /\ UNCHANGED <<run, opts, euid, umask, taken, config, calls, mode16, buf,
                   result, exit, Disk, events, envFault, prev, start>>

\* The bytes io::copy may take: stdin.take(core_limit).
Takeable == Min(opts.core_limit, Len(stdin))

\* line 225: io::copy reads the next byte into the BufWriter.
CopyRead ==
    /\ pc = "w_copy"
    /\ taken < Takeable
    /\ Len(buf) < BufCap
    /\ buf' = Append(buf, stdin[taken + 1])
    /\ taken' = taken + 1
    /\ UNCHANGED Locals
    /\ UNCHANGED <<run, pc, opts, euid, umask, stdin, config, calls, mode16,
                   result, exit, Disk, events, envFault, prev, start>>

\* line 225: the BufWriter is full and more is to come: it writes its bytes
\* to the file; a failed write ends the copy with an error.
CopyFlush ==
    /\ pc = "w_copy"
    /\ taken < Takeable
    /\ Len(buf) = BufCap
    /\ \/ /\ files' = WriteBytes(files, Path, buf)
          /\ buf' = <<>>
          /\ Did("write")
          /\ UNCHANGED <<pc, result, envFault>>
       \/ /\ result' = Err("write", "error writing core dump")
          /\ pc' = "w_drop"
          /\ envFault' = TRUE
          /\ UNCHANGED <<files, buf, events>>
    /\ UNCHANGED Locals
    /\ UNCHANGED <<run, opts, euid, umask, stdin, taken, config, calls, mode16,
                   exit, dirs, logFile, prev, start>>

\* lines 225-228: the limit or the end of input is reached: Ok(()).
CopyDone ==
    /\ pc = "w_copy"
    /\ taken = Takeable
    /\ result' = OkResult
    /\ pc' = "w_drop"
    /\ UNCHANGED <<run, Process, exit, Disk, events, envFault, prev, start>>

\* line 229: out_writer goes out of scope.  BufWriter's drop writes what it
\* still holds and ignores the outcome of that write.
DropWriter ==
    /\ pc = "w_drop"
    /\ IF buf = <<>>
       THEN UNCHANGED <<files, events, envFault>>
       ELSE \/ /\ files' = WriteBytes(files, Path, buf)
               /\ Did("write")
               /\ UNCHANGED envFault
            \/ /\ envFault' = TRUE
               /\ UNCHANGED <<files, events>>
    /\ buf' = <<>>
    /\ pc' = "return"
    /\ UNCHANGED Locals
    /\ UNCHANGED <<run, opts, euid, umask, stdin, taken, config, calls, mode16,
                   result, exit, dirs, logFile, prev, start>>

-----------------------------------------------------------------------------
(* main(): the log file of a failed run, the exit status.                  *)

\* line 95: `{}` of the error is its message: one line for every error
\* raised in this file, the header and one line per missing option for the
\* usage text of line 102.  writeln! ends the last line.
Display(e) ==
    IF e.kind = "usage"
    THEN <<"Required options not provided:">> \o e.value
    ELSE <<e>>

\* Variant: main returns the error of run() without a log file.
MainLogError_silent ==
    /\ pc = "return"
    /\ result.kind # "ok"
    /\ exit' = "failure"
    /\ pc' = "exit"
    /\ UNCHANGED <<run, Process, result, Disk, events, envFault, prev, start>>

\* lines 92-97: run() failed: the message goes to a new log file in /tmp,
\* and the error is returned.  A failure to create the log file (line 94)
\* or to write it (line 95) is returned instead.
MainLogError ==
    /\ pc = "return"
    /\ result.kind # "ok"
    /\ \/ /\ logFile' = [exists |-> TRUE, owner |-> euid,
                         mode |-> BitClear(FileCreateMode, umask),
                         content |-> Display(result)]
          /\ Did("log")
          /\ UNCHANGED envFault
       \/ /\ logFile' = [exists |-> TRUE, owner |-> euid,
                         mode |-> BitClear(FileCreateMode, umask),
                         content |-> <<>>]
          /\ Did("log_failed")
          /\ envFault' = TRUE
       \/ /\ Did("log_failed")
          /\ envFault' = TRUE
          /\ UNCHANGED logFile
    /\ exit' = "failure"
    /\ pc' = "exit"
    /\ UNCHANGED <<run, Process, result, dirs, files, prev, start>>

\* line 98: run() succeeded.
MainOk ==
    /\ pc = "return"
    /\ result.kind = "ok"
    /\ exit' = "success"
    /\ pc' = "exit"
    /\ UNCHANGED <<run, Process, result, Disk, events, envFault, prev, start>>

\* The dispatcher starts the helper again, for the next crash.
NextRun ==
    /\ pc = "exit"
    /\ run < MaxRuns
    /\ Fresh(run + 1)
    /\ prev' = IF exit = "success" /\ opts.core_limit > 1 /\ Path # EmptyPath
               THEN [exit |-> exit, uid |-> opts.uid, output_path |-> Path,
                     permissions |-> config.permissions]
               ELSE [exit |-> exit]
    /\ UNCHANGED <<dirs, files>>
    /\ start' = [dirs |-> dirs, files |-> files]

Next ==
    \/ ParseArgs
    \/ CheckCoreLimit
    \/ SetUid
    \/ WrangleExe
    \/ GetUserDetails
    \/ RunScriptBegin
    \/ \E x \in OutputPaths : ScriptSetOutputPath(x)
    \/ \E x \in PermArgs : ScriptSetPermissions(x)
    \/ ScriptParseError
    \/ ScriptRaise
    \/ RunScriptReturn
    \/ Decide
    \/ WriteSetBaseUmask
    \/ WriteCreateDirs
    \/ WriteValidateMode
    \/ WriteSetModeUmask
    \/ WriteOpen
    \/ WriteChmod
    \/ WriteLockStdin
    \/ CopyRead
    \/ CopyFlush
    \/ CopyDone
    \/ DropWriter
    \/ MainLogError
    \/ MainOk
    \/ NextRun

Spec == Init /\ [][Next]_vars

\* The steps of run() up to the executable name, for every --exe argument.
ParseArgsExe == ParseArgsFrom(EncodedExes)

NextExe ==
    \/ ParseArgsExe
    \/ CheckCoreLimit
    \/ SetUid
    \/ WrangleExe

SpecExe == Init /\ [][NextExe]_vars

\* The steps of run() and run_script() up to the texts of the accessors, for
\* every entry of the identity database.
GetUserDetailsAny == GetUserDetailsFrom(PwEntries)

NextIdentity ==
    \/ ParseArgs
    \/ CheckCoreLimit
    \/ SetUid
    \/ WrangleExe
    \/ GetUserDetailsAny
    \/ RunScriptBegin

SpecIdentity == Init /\ [][NextIdentity]_vars

-----------------------------------------------------------------------------
(* Vocabulary of the properties.                                           *)

Happened(e) == \E i \in 1..Len(events) : events[i] = e

\* Position of the first occurrence of e in the events (0 when absent).
FirstAt(e) ==
    IF Happened(e)
    THEN CHOOSE i \in 1..Len(events) :
            events[i] = e /\ \A j \in 1..(i - 1) : events[j] # e
    ELSE 0

\* Changes of directories and of the output file.
Mutations == {"mkdir", "open", "chmod", "write"}

\* Directories and output files are as the run found them.
Untouched == dirs = start.dirs /\ files = start.files

\* The script ran to its end without an error.
ScriptCompleted ==
    Happened("eval") /\ ~Happened("raise") /\ pc \notin {"run_script", "eval"}

\* The run went through write_output and main returned success.
WroteSuccessfully ==
    /\ pc = "exit"
    /\ exit = "success"
    /\ opts.valid
    /\ opts.core_limit > 1
    /\ Path # EmptyPath

\* The mode the script chose: the last argument of set_permissions, or the
\* default when the script never called it.
ChosenMode ==
    IF calls.set_permissions.called
    THEN calls.set_permissions.arg
    ELSE I64(FALSE, U64(DefaultPermissions))

-----------------------------------------------------------------------------
(* C1: in every run the privilege drop precedes the evaluation of the      *)
(* script and every change of a directory or of the output file: whenever  *)
(* one of these has happened, setuid succeeded earlier in the run and the  *)
(* process runs as the crashing uid.                                       *)
C1_DropBeforeScriptAndWrites ==
    \A i \in 1..Len(events) :
        events[i] \in Mutations \cup {"eval"} =>
            /\ \E j \in 1..(i - 1) : events[j] = "setuid"
            /\ euid = opts.uid

C1_Witness ==
    /\ pc = "exit"
    /\ exit = "success"
    /\ opts.uid # Root
    /\ Happened("eval")
    /\ Happened("mkdir")
    /\ Happened("open")
    /\ Happened("chmod")
    /\ Happened("write")

(* C2: with parsed arguments and core_limit 0 or 1 the run does nothing:   *)
(* no setuid, no lookup, no evaluation, no directory, output file or log   *)
(* file, no input read; it returns Ok and exits successfully.              *)
C2_CoreLimitShortCircuit ==
    (opts.valid /\ opts.core_limit <= 1 /\ pc # "check_limit") =>
        /\ pc \in {"return", "exit"}
        /\ result = OkResult
        /\ events = <<>>
        /\ euid = Root
        /\ Untouched
        /\ logFile = NoEnt
        /\ taken = 0
        /\ config = DefaultConfig
        /\ (pc = "exit" => exit = "success")

C2_Witness ==
    /\ pc = "exit"
    /\ opts.valid
    /\ opts.core_limit = 1
    /\ exit = "success"

(* C3: on every successful run that wrote an output file, the permission   *)
(* bits of the file at exit are exactly the mode the script chose (0o400   *)
(* when it never called set_permissions), whatever umask was inherited.    *)
C3_ModeExactlyAsChosen ==
    WroteSuccessfully =>
        /\ files[Path].exists
        /\ I64(FALSE, U64(files[Path].mode)) = ChosenMode

(* C3, the part that holds: when the chosen mode has no bit above 0o7777   *)
(* the permission bits at exit are exactly that mode.                      *)
C3_ModeExactBelowPermBits ==
    (WroteSuccessfully /\ mode16.v < PermBits) =>
        /\ files[Path].exists
        /\ I64(FALSE, U64(files[Path].mode)) = ChosenMode

(* C4: on every successful run that wrote an output file with core_limit   *)
(* at least 2, the content of the file at exit is the first                *)
(* min(core_limit, bytes offered) bytes of standard input, in order.       *)
C4_ContentIsLimitedPrefix ==
    WroteSuccessfully =>
        /\ files[Path].exists
        /\ files[Path].content = SubSeq(stdin, 1, Min(opts.core_limit, Len(stdin)))

(* C4, the part that holds: when no write to the file failed, the content  *)
(* at exit is that prefix.                                                 *)
C4_ContentExactWithoutFault ==
    (WroteSuccessfully /\ ~envFault) =>
        /\ files[Path].exists
        /\ files[Path].content = SubSeq(stdin, 1, Min(opts.core_limit, Len(stdin)))

(* C5, as claimed: a run that fails with the identity-lookup error has     *)
(* attempted neither the privilege drop nor the evaluation of the script.  *)
C5_LookupFailsBeforeDrop ==
    result.kind = "identity" =>
        /\ ~Happened("setuid")
        /\ ~Happened("setuid_failed")
        /\ ~Happened("eval")

(* C5, amended: when the crashing uid has no entry in the identity         *)
(* database and the privilege drop has succeeded, the run fails with the   *)
(* identity-lookup error, which cites the uid, and the script is never     *)
(* evaluated; the setuid of that run precedes the lookup.                  *)
C5_LookupFailsAfterDropBeforeScript ==
    /\ (opts.valid /\ opts.uid \notin KnownUids /\ Happened("getpwuid")) =>
            /\ result = Err("identity", opts.uid)
            /\ ~Happened("eval")
            /\ Untouched
            /\ (pc = "exit" => exit = "failure")
    /\ result.kind = "identity" =>
            /\ opts.uid \notin KnownUids
            /\ euid = opts.uid
            /\ 0 < FirstAt("setuid")
            /\ FirstAt("setuid") < FirstAt("getpwuid")

C5_Witness ==
    /\ pc = "exit"
    /\ exit = "failure"
    /\ result.kind = "identity"
    /\ events = <<"setuid", "getpwuid", "log">>

C7_ScriptErrorWritesNothing ==
    Happened("raise") =>
        /\ result.kind = "script"
        /\ pc \in {"return", "exit"}
        /\ Untouched
        /\ taken = 0
        /\ \A i \in 1..Len(events) : events[i] \notin Mutations
        /\ \A p \in calls.paths \ {EmptyPath} : files[p] = start.files[p]
        /\ (pc = "exit" => exit = "failure")

C7_Witness ==
    /\ pc = "exit"
    /\ Happened("raise")
    /\ PathA \in calls.paths
    /\ calls.set_permissions.called
    /\ ~files[PathA].exists

(* C8: when the script set a permission value outside the mode range, the  *)
(* run fails with the invalid-permissions error, the error cites the value *)
(* the script set, and the output file is neither created nor truncated.   *)
C8_InvalidPermissionsCited ==
    result.kind = "invalid_permissions" =>
        /\ files = start.files
        /\ I64(FALSE, result.value) = ChosenMode

(* C8, the part that holds: a value that does not fit u16 ends the run     *)
(* before the open; the error cites the stored 64-bit value.               *)
C8_InvalidPermissionsNoFile ==
    result.kind = "invalid_permissions" =>
        /\ files = start.files
        /\ result.value = config.permissions
        /\ ~TryIntoU16(config.permissions).ok
        /\ ~Happened("open")
        /\ (pc = "exit" => exit = "failure")

(* C9: the pipeline run twice with the same arguments, script and output   *)
(* path, the first run having succeeded and nothing outside the program    *)
(* failing: the second run succeeds and the file holds the bytes of the    *)
(* second run only.                                                        *)
C9_SecondRunOverwrites ==
    ( /\ pc = "exit"
      /\ run > 1
      /\ ~envFault
      /\ prev.exit = "success"
      /\ "output_path" \in DOMAIN prev
      /\ opts.valid
      /\ opts.core_limit > 1
      /\ ScriptCompleted
      /\ opts.uid = prev.uid
      /\ Path = prev.output_path
      /\ config.permissions = prev.permissions ) =>
        /\ exit = "success"
        /\ files[Path].content = SubSeq(stdin, 1, Min(opts.core_limit, Len(stdin)))

(* C9, the part that holds: the same, when the crashing user is root or    *)
(* the mode has the owner-write bit.                                       *)
C9_SecondRunOverwritesWhenWritable ==
    ( /\ pc = "exit"
      /\ run > 1
      /\ ~envFault
      /\ prev.exit = "success"
      /\ "output_path" \in DOMAIN prev
      /\ opts.valid
      /\ opts.core_limit > 1
      /\ ScriptCompleted
      /\ opts.uid = prev.uid
      /\ Path = prev.output_path
      /\ config.permissions = prev.permissions
      /\ (opts.uid = Root \/ BitAnd(mode16.v, OwnerWrite) # 0) ) =>
        /\ exit = "success"
        /\ files[Path].content = SubSeq(stdin, 1, Min(opts.core_limit, Len(stdin)))

(* C10: when the arguments are valid, the lookup succeeds and the script   *)
(* completes with an empty output path, the run creates no directory and   *)
(* no file, reads nothing from standard input and exits successfully.      *)
C10_NoPathNoFile ==
    (ScriptCompleted /\ Path = EmptyPath /\ pc # "decide") =>
        /\ pc \in {"return", "exit"}
        /\ result = OkResult
        /\ Untouched
        /\ logFile = NoEnt
        /\ taken = 0
        /\ stdin = <<>>
        /\ \A i \in 1..Len(events) : events[i] \notin Mutations \cup {"log"}
        /\ (pc = "exit" => exit = "success")

C10_Witness ==
    /\ pc = "exit"
    /\ exit = "success"
    /\ ScriptCompleted
    /\ calls.set_output_path.called
    /\ PathA \in calls.paths
    /\ Path = EmptyPath

-----------------------------------------------------------------------------
-----------------------------------------------------------------------------
(* C12: for every encoded executable string, full_exe is the string with   *)
(* every '!' replaced by '/', and exe is the base name (the final path     *)
(* component) of full_exe.  Checked under SpecExe, which draws the --exe   *)
(* argument from EncodedExes.                                              *)

Wrangled == Happened("setuid") /\ pc \notin {"set_uid", "wrangle"}

EveryBangReplaced ==
    /\ Len(full_exe) = Len(opts.exe)
    /\ \A i \in 1..Len(opts.exe) :
          full_exe[i] = (IF opts.exe[i] = "!" THEN "/" ELSE opts.exe[i])

\* The final component of a path: what follows its last '/'; a path
\* without '/' is its own final component.
BaseName(path) ==
    LET at == {i \in 1..Len(path) : path[i] = "/"}
    IN  IF at = {} THEN path
        ELSE SubSeq(path, (CHOOSE i \in at : \A j \in at : j <= i) + 1,
                    Len(path))

C12_ExeIsBaseName ==
    Wrangled => EveryBangReplaced /\ exe = BaseName(full_exe)

(* C12, what the code computes: the replacement as claimed; exe is the     *)
(* base name when full_exe contains a '/', and the empty text otherwise.   *)
C12_ExeIsBaseNameAfterSlash ==
    Wrangled =>
        /\ EveryBangReplaced
        /\ exe = (IF \E i \in 1..Len(full_exe) : full_exe[i] = "/"
                  THEN BaseName(full_exe) ELSE <<>>)

-----------------------------------------------------------------------------
(* C13: write_output sets the file-creation mask to 022 before it creates  *)
(* any parent directory, so whatever mask the process inherited, a         *)
(* directory created by the run has no group-write and no world-write bit. *)

GroupOrOtherWrite == 2^4 + OtherWrite       \* 0o022

CreatedDirs == {d \in DirPaths : dirs[d].exists /\ ~start.dirs[d].exists}

C13_CreatedDirsNotGroupOrWorldWritable ==
    /\ pc = "w_mkdir" => umask = BaselineUmask
    /\ \A d \in CreatedDirs : BitAnd(dirs[d].mode, GroupOrOtherWrite) = 0

C13_Witness ==
    /\ pc = "w_validate"
    /\ Happened("mkdir")
    /\ Cardinality(CreatedDirs) = 2
    /\ \A d \in CreatedDirs : dirs[d].owner = 1000

-----------------------------------------------------------------------------
(* C14: when the output file is created the file-creation mask is the     *)
(* complement of the requested mode (in the nine bits a mask has), so an   *)
(* output file the run created has, in every state up to the exit, no      *)
(* permission bit outside the requested mode.                              *)

CreatedFiles == {p \in FilePaths : files[p].exists /\ ~start.files[p].exists}

\* The requested mode, once it has passed the conversion of line 194.
RequestedMode == ChosenMode.mag[Limbs]

C14_CreatedFileWithinRequestedMode ==
    /\ pc = "w_open" =>
          /\ mode16.ok
          /\ mode16.v = RequestedMode
          /\ umask = BitClear(MaskBits - 1, RequestedMode % MaskBits)
    /\ \A p \in CreatedFiles :
          /\ ~ChosenMode.neg
          /\ \A i \in 1..(Limbs - 1) : ChosenMode.mag[i] = 0
          /\ BitAnd(files[p].mode, RequestedMode) = files[p].mode

C14_Witness ==
    /\ pc = "w_chmod"
    /\ CreatedFiles = {PathA}
    /\ RequestedMode = 4534
    /\ files[PathA].mode = 438

-----------------------------------------------------------------------------
(* C15: every directory and file the process creates in a run (parent      *)
(* directories, the output file, the failure log file) is created after a  *)
(* successful privilege drop, as the crashing process's uid, and so is     *)
(* owned by that uid.                                                      *)

DroppedTo(owner) == opts.valid /\ Happened("setuid") /\ owner = opts.uid

C15_EveryCreationAfterDrop ==
    /\ \A d \in CreatedDirs : DroppedTo(dirs[d].owner)
    /\ \A p \in CreatedFiles : DroppedTo(files[p].owner)
    /\ logFile.exists => DroppedTo(logFile.owner)

(* C15, the part that holds: the parent directories and the output file    *)
(* are created after the drop and owned by the crashing uid.               *)
C15_OutputCreatedAfterDrop ==
    /\ \A d \in CreatedDirs : DroppedTo(dirs[d].owner)
    /\ \A p \in CreatedFiles : DroppedTo(files[p].owner)

-----------------------------------------------------------------------------
(* C16: the chmod to the requested mode precedes the copy: whenever the    *)
(* output file holds dump bytes written by this run, a chmod of this run   *)
(* came first and the permission bits of the file equal the requested      *)
(* mode, also when the file existed before with other bits; when the       *)
(* chmod fails, no dump byte is written.                                   *)

ChmodFailed ==
    result = Err("write", "error setting core dump permissions")

ChmodBeforeWrite ==
    Happened("write") =>
        Happened("chmod") /\ FirstAt("chmod") < FirstAt("write")

NothingWrittenAfterFailedChmod ==
    ChmodFailed =>
        ~Happened("write") /\ buf = <<>> /\ files[Path].content = <<>>

C16_DumpBytesOnlyUnderRequestedMode ==
    /\ ChmodBeforeWrite
    /\ Happened("write") =>
          I64(FALSE, U64(files[Path].mode)) = ChosenMode
    /\ NothingWrittenAfterFailedChmod

(* C16, the part that holds: the order, the zero bytes after a failed      *)
(* chmod, and the equality of the bits for requested modes up to 0o7777.   *)
C16_DumpBytesOnlyAfterChmod ==
    /\ ChmodBeforeWrite
    /\ (Happened("write") /\ mode16.v < PermBits) =>
          I64(FALSE, U64(files[Path].mode)) = ChosenMode
    /\ NothingWrittenAfterFailedChmod

-----------------------------------------------------------------------------
(* C17: the accumulator starts as (empty path, 0o400); set_output_path     *)
(* replaces only output_path and set_permissions only permissions: from    *)
(* the start of the evaluation to the end of the run, and so in the        *)
(* snapshot the writer gets, each field holds the argument of the last     *)
(* call of its setter (the permissions as the u64 the setter stores), or   *)
(* its initial value when that setter was never called.                    *)
C17_SnapshotHoldsLastArguments ==
    Happened("eval") =>
        /\ config.output_path =
              (IF calls.set_output_path.called
               THEN calls.set_output_path.arg ELSE EmptyPath)
        /\ config.permissions =
              (IF calls.set_permissions.called
               THEN AsU64(calls.set_permissions.arg)
               ELSE U64(DefaultPermissions))
        /\ (calls.set_permissions.called /\ ~calls.set_permissions.arg.neg) =>
              config.permissions = calls.set_permissions.arg.mag

C17_Witness ==
    /\ pc = "w_umask"
    /\ ScriptCompleted
    /\ calls.n = 2
    /\ events = <<"setuid", "getpwuid", "eval">>
    /\ config = [output_path |-> PathA, permissions |-> U64(384)]

-----------------------------------------------------------------------------
(* C18: for every i64 x that set_permissions left in the accumulator, an   *)
(* x below 0 or above 65535 is never turned into an accepted mode (no      *)
(* open, no chmod, no change of a file) and fails the run with the         *)
(* invalid-permissions error once write_output converts it; an accepted    *)
(* mode equals x exactly, in the mask of the creation and in the chmod.    *)

FitsMode(x) == ~x.neg /\ \A i \in 1..(Limbs - 1) : x.mag[i] = 0

C18_OutOfRangeRejectedInRangeExact ==
    /\ mode16.ok => FitsMode(ChosenMode) /\ U64(mode16.v) = ChosenMode.mag
    /\ ~FitsMode(ChosenMode) =>
          /\ ~mode16.ok
          /\ ~Happened("open") /\ ~Happened("chmod") /\ ~Happened("write")
          /\ files = start.files
          /\ (ScriptCompleted /\ Path # EmptyPath /\ pc \in {"return", "exit"}
                /\ result.kind # "write") =>
                result = Err("invalid_permissions", AsU64(ChosenMode))
    /\ pc = "w_open" =>
          umask = BitClear(MaskBits - 1, ChosenMode.mag[Limbs] % MaskBits)
    /\ Happened("chmod") =>
          files[Path].mode = ChosenMode.mag[Limbs] % PermBits

C18_Witness ==
    /\ pc = "exit"
    /\ exit = "failure"
    /\ ChosenMode = I64(FALSE, <<0, 0, 1, 0>>)
    /\ result.kind = "invalid_permissions"
    /\ Happened("mkdir")

-----------------------------------------------------------------------------
(* C19: for every byte sequence the identity database returns as user name *)
(* or home directory, bytes 0x80-0xFF included, the texts username() and   *)
(* home() give the script have one char per byte, char i being the code    *)
(* point equal to byte i.  Checked under SpecIdentity, which draws the     *)
(* entry from PwEntries.                                                   *)

Exposed == Happened("eval")

C19_TextsDecodedByteForByte ==
    Exposed =>
        /\ Utf8Chars(username) = passwd.pw_name
        /\ Utf8Chars(home) = passwd.pw_dir

(* C19, the part that holds: the user name has one char per byte; so has   *)
(* the home directory when all its bytes are below 0x80.                   *)
C19_UsernameDecodedByteForByte ==
    Exposed =>
        /\ Utf8Chars(username) = passwd.pw_name
        /\ (\A i \in 1..Len(passwd.pw_dir) : passwd.pw_dir[i] < 128) =>
              Utf8Chars(home) = passwd.pw_dir

=============================================================================
